---- MODULE Spec2Model ----
(***************************************************************************)
(* Model of the kalshi_dashboard pipeline (src/utils.py, src/main.py):     *)
(*   get_data_from_api  -- cursor pagination, one frame per page, concat   *)
(*   get_top_2          -- dropna / sort / head(2) / cumcount / pivot      *)
(*   add_spread_col     -- spread, masked percentage, midprice, rating     *)
(*                                                                         *)
(* Values.  A cell of a DataFrame is an option: <<>> is null (None / NaN), *)
(* <<v>> is the value v.  Prices and spreads are fixed-point integers in   *)
(* units of 1/10000, so 0.02 is 200, 0.0201 is 201 and 5 is 50000.         *)
(* A float produced by a division is a fraction [n, d] in lowest terms     *)
(* with d > 0; d = 0 encodes the IEEE results of dividing by zero:         *)
(* [n |-> 1, d |-> 0] is inf, [n |-> -1, d |-> 0] is -inf and              *)
(* [n |-> 0, d |-> 0] is NaN.                                              *)
(*                                                                         *)
(* A DataFrame is [cols, index, rows]: the set of column labels, the       *)
(* sequence of index labels and the sequence of rows, each row a function  *)
(* from cols to cells.  DataFrames live in a heap of objects; a Python     *)
(* name (data, top_2, final_df) holds a reference into the heap, 0 while   *)
(* it is unbound, so aliasing and in-place mutation are visible.           *)
(***************************************************************************)
EXTENDS Integers, Sequences, FiniteSets, TLC

VARIABLES pc, exc, heap, data, top_2, final_df, cursor, frames, tot, log

vars == <<pc, exc, heap, data, top_2, final_df, cursor, frames, tot, log>>

----------------------------------------------------------------------------
(* Bounds of the model *)

MaxRequests == 3
MaxPageLen == 2
MaxRows == 3
MaxEventRows == 2

----------------------------------------------------------------------------
(* Cells *)

NULL == <<>>

Some(v) == <<v>>

IsNull(c) == c = NULL

NotNa(c) == c # NULL

Val(c) == c[1]

SeqsUpTo(S, n) == UNION {[1..k -> S] : k \in 0..n}

EmptyFrame == [cols |-> {}, index |-> <<>>, rows |-> <<>>]

RangeIndex(n) == [i \in 1..n |-> i]

----------------------------------------------------------------------------
(* Columns *)

RawCols ==
  {"event_ticker", "liquidity", "title", "yes_sub_title",
   "yes_bid", "yes_ask", "no_bid", "no_ask"}

----------------------------------------------------------------------------
(* get_data_from_api: the source's answers *)

Tickers == <<"E1", "E2">>

SubTitles == <<"Yes-A", "Yes-B", "Yes-C", "Yes-D", "Yes-E", "Yes-F">>

\* One market object of the events payload: its event, its liquidity and,
\* by its position k in the table, its sub-title and quotes.
Market(t, l, k) ==
  [event_ticker |-> t, liquidity |-> l,
   title |-> IF t = NULL THEN NULL ELSE Some("Title of " \o Val(t)),
   yes_sub_title |-> Some(SubTitles[k]),
   yes_bid |-> IF k = 2 THEN NULL ELSE Some(4300 - 100 * k),
   yes_ask |-> IF k = 3 THEN NULL ELSE Some(4500 + k),
   no_bid |-> Some(5500 + k),
   no_ask |-> IF k = 1 THEN NULL ELSE Some(5700 + 100 * k)]

TickerCells == {NULL} \cup {Some(Tickers[i]) : i \in 1..Len(Tickers)}

LiquidityCells == {NULL, Some(1), Some(2)}

\* The markets a page can carry.
PageMarkets == {Market(Some("E1"), Some(2), 1), Market(Some("E1"), NULL, 2)}

CursorCells == {NULL, Some(""), Some("c1"), Some("c2")}

\* A response: the request or its decoding failed (lines 31-33), the payload
\* has no events/markets to flatten (line 35), or a page and its cursor.
Responses ==
  [kind : {"http_error", "bad_payload"}, markets : {<<>>}, cursor : {NULL}]
  \cup [kind : {"ok"}, markets : SeqsUpTo(PageMarkets, MaxPageLen),
        cursor : CursorCells]

\* Python truthiness of data.get("cursor"): None and "" are falsy.
Truthy(c) == c # NULL /\ c # Some("")

PagedUrlNoCursor(c) == NULL

\* line 30: the cursor parameter of the paged url, null when there is none.
PagedUrlCursor(c) == IF Truthy(c) THEN c ELSE NULL

\* line 35: pd.json_normalize(data["events"], "markets"): one row per market,
\* in the payload's order; no market at all gives a frame without columns.
JsonNormalize(markets) ==
  IF markets = <<>> THEN EmptyFrame
  ELSE [cols |-> RawCols, index |-> RangeIndex(Len(markets)), rows |-> markets]

RECURSIVE ConcatRows(_, _)
ConcatRows(fs, cols) ==
  IF fs = <<>> THEN <<>>
  ELSE [i \in 1..Len(Head(fs).rows) |->
          [c \in cols |-> IF c \in Head(fs).cols THEN Head(fs).rows[i][c]
                          ELSE NULL]]
       \o ConcatRows(Tail(fs), cols)

\* line 48: pd.concat(frames, ignore_index=True) of a non-empty list.
PdConcat(fs) ==
  LET cols == UNION {fs[i].cols : i \in 1..Len(fs)}
      rows == ConcatRows(fs, cols)
  IN [cols |-> cols, index |-> RangeIndex(Len(rows)), rows |-> rows]

InitFetch ==
  /\ pc = "request"
  /\ exc = "none"
  /\ heap = <<>>
  /\ data = 0
  /\ top_2 = 0
  /\ final_df = 0
  /\ cursor = NULL
  /\ frames = <<>>
  /\ tot = 0
  /\ log = <<>>

\* lines 29-43, an iteration that raises: the except clause (45-46) ends the
\* loop with frames and cursor as they were.
RequestFails ==
  /\ pc = "request"
  /\ \E r \in Responses :
       /\ r.kind # "ok"
       /\ log' = Append(log, [sent |-> PagedUrlCursor(cursor), resp |-> r])
  /\ pc' = "concat"
  /\ UNCHANGED <<exc, heap, data, top_2, final_df, cursor, frames, tot>>

\* lines 29-43, an iteration that gets a page.
RequestOk ==
  /\ pc = "request"
  /\ \E r \in Responses :
       /\ r.kind = "ok"
       /\ Truthy(r.cursor) => Len(log) + 1 < MaxRequests
       /\ log' = Append(log, [sent |-> PagedUrlCursor(cursor), resp |-> r])
       /\ cursor' = r.cursor
       /\ frames' = Append(frames, JsonNormalize(r.markets))
       /\ tot' = tot + Len(JsonNormalize(r.markets).rows)
       /\ pc' = IF Truthy(r.cursor) THEN "request" ELSE "concat"
  /\ UNCHANGED <<exc, heap, data, top_2, final_df>>

\* lines 48-50 and main.py line 12.
Concat ==
  /\ pc = "concat"
  /\ IF frames = <<>>
     THEN /\ exc' = "ValueError"
          /\ pc' = "raised"
          /\ UNCHANGED <<heap, data>>
     ELSE /\ heap' = Append(heap, PdConcat(frames))
          /\ data' = Len(heap) + 1
          /\ pc' = "returned"
          /\ UNCHANGED exc
  /\ UNCHANGED <<top_2, final_df, cursor, frames, tot, log>>

NextFetch == RequestFails \/ RequestOk \/ Concat

SpecFetch == InitFetch /\ [][NextFetch]_vars

----------------------------------------------------------------------------
(* get_top_2 *)

\* lines 126-140.  The model tracks the market columns that reach the output
\* or decide it; the dollar variants and no_sub_title are carried by the code
\* through the pivot and dropped at lines 151-166.
MarketCols ==
  {"title", "yes_sub_title", "liquidity", "yes_bid", "yes_ask", "no_bid",
   "no_ask"}

\* lines 153-165
CanonicalCols ==
  {"title_m1", "yes_sub_title_m1", "yes_bid_m1", "yes_ask_m1", "no_bid_m1",
   "no_ask_m1", "yes_sub_title_m2", "yes_bid_m2", "yes_ask_m2", "no_bid_m2",
   "no_ask_m2"}

\* lines 168-177
PriceCols ==
  {"yes_bid_m1", "yes_ask_m1", "no_bid_m1", "no_ask_m1", "yes_bid_m2",
   "yes_ask_m2", "no_bid_m2", "no_ask_m2"}

\* The rows of frame f at positions ps, with their index labels.
Take(f, ps) ==
  [cols |-> f.cols,
   index |-> [i \in 1..Len(ps) |-> f.index[ps[i]]],
   rows |-> [i \in 1..Len(ps) |-> f.rows[ps[i]]]]

DropNaKeepsNullLiquidity(row) == NotNa(row["event_ticker"])

\* line 117: a row stays when neither cell of the subset is null.
DropNaKeeps(row) == NotNa(row["event_ticker"]) /\ NotNa(row["liquidity"])

RECURSIVE KeptPositions(_, _)
KeptPositions(f, i) ==
  IF i > Len(f.rows) THEN <<>>
  ELSE (IF DropNaKeeps(f.rows[i]) THEN <<i>> ELSE <<>>)
       \o KeptPositions(f, i + 1)

\* line 117: df.dropna(subset=["event_ticker", "liquidity"])
DropNa(f) == Take(f, KeptPositions(f, 1))

TickerRank(t) == CHOOSE i \in 1..Len(Tickers) : Tickers[i] = Val(t)

SortKeyLessAscending(a, b) ==
  \/ TickerRank(a["event_ticker"]) < TickerRank(b["event_ticker"])
  \/ /\ a["event_ticker"] = b["event_ticker"]
     /\ NotNa(a["liquidity"])
     /\ IsNull(b["liquidity"]) \/ Val(a["liquidity"]) < Val(b["liquidity"])

\* line 118: by=["event_ticker", "liquidity"], ascending=[True, False]; a
\* null sorts last (na_position="last").
SortKeyLess(a, b) ==
  \/ TickerRank(a["event_ticker"]) < TickerRank(b["event_ticker"])
  \/ /\ a["event_ticker"] = b["event_ticker"]
     /\ NotNa(a["liquidity"])
     /\ IsNull(b["liquidity"]) \/ Val(a["liquidity"]) > Val(b["liquidity"])

RECURSIVE InsertBeforeEqual(_, _, _)
InsertBeforeEqual(f, p, s) ==
  IF s = <<>> THEN <<p>>
  ELSE IF ~SortKeyLess(f.rows[Head(s)], f.rows[p]) THEN <<p>> \o s
  ELSE <<Head(s)>> \o InsertBeforeEqual(f, p, Tail(s))

\* Position p goes into the sorted positions s behind every position whose
\* row does not sort after it: equal keys keep their order (a sort on several
\* columns is a lexsort, which is stable).
RECURSIVE InsertSorted(_, _, _)
InsertSorted(f, p, s) ==
  IF s = <<>> THEN <<p>>
  ELSE IF SortKeyLess(f.rows[p], f.rows[Head(s)]) THEN <<p>> \o s
  ELSE <<Head(s)>> \o InsertSorted(f, p, Tail(s))

RECURSIVE SortedPositions(_, _)
SortedPositions(f, n) ==
  IF n = 0 THEN <<>> ELSE InsertSorted(f, n, SortedPositions(f, n - 1))

\* line 118
SortValues(f) == Take(f, SortedPositions(f, Len(f.rows)))

\* groupby("event_ticker").cumcount(): the rows of the same event before i.
CumCount(f, i) ==
  Cardinality({j \in 1..(i - 1) :
                 f.rows[j]["event_ticker"] = f.rows[i]["event_ticker"]})

RECURSIVE HeadPositions(_, _, _)
HeadPositions(f, i, n) ==
  IF i > Len(f.rows) THEN <<>>
  ELSE (IF CumCount(f, i) < n THEN <<i>> ELSE <<>>)
       \o HeadPositions(f, i + 1, n)

\* lines 119-120: the first n rows of every group, in the frame's order.
GroupHead(f, n) == Take(f, HeadPositions(f, 1, n))

\* line 123: top2["m_rank"]
MRank(f, i) == CumCount(f, i) + 1

\* line 148
ColName(col, rank) == col \o (IF rank = 1 THEN "_m1" ELSE "_m2")

\* The positions in Tickers of the tickers of events, ascending: the sorted
\* index that pivot builds.
RECURSIVE TickerOrder(_, _)
TickerOrder(events, i) ==
  IF i > Len(Tickers) THEN <<>>
  ELSE (IF Some(Tickers[i]) \in events THEN <<i>> ELSE <<>>)
       \o TickerOrder(events, i + 1)

\* lines 143-148: one row per event, in the order of the tickers; a column
\* for every market column and every m_rank that occurs; a cell is the value
\* of the event's row of that rank, and null where the event has none.
Pivot(f) ==
  LET n == Len(f.rows)
      ranks == {MRank(f, i) : i \in 1..n}
      events == {f.rows[i]["event_ticker"] : i \in 1..n}
      order == TickerOrder(events, 1)
      Cell(t, col, rank) ==
        IF \E i \in 1..n : f.rows[i]["event_ticker"] = t /\ MRank(f, i) = rank
        THEN f.rows[CHOOSE i \in 1..n :
                      f.rows[i]["event_ticker"] = t /\ MRank(f, i) = rank][col]
        ELSE NULL
      Wide(t) ==
        LET pairs == {<<ColName(c, r), Cell(t, c, r)>> :
                        c \in MarketCols, r \in ranks}
        IN [name \in {pr[1] : pr \in pairs} |->
              (CHOOSE pr \in pairs : pr[1] = name)[2]]
  IN [cols |-> {ColName(c, r) : c \in MarketCols, r \in ranks},
      index |-> [k \in 1..Len(order) |-> Some(Tickers[order[k]])],
      rows |-> [k \in 1..Len(order) |-> Wide(Some(Tickers[order[k]]))]]

\* lines 151-166: wide.loc[:, labels], defined when every label is a column.
Loc(f, labels) ==
  [cols |-> labels, index |-> f.index,
   rows |-> [i \in 1..Len(f.rows) |-> [c \in labels |-> f.rows[i][c]]]]

\* pd.to_numeric(errors="coerce") of a cell: a number stays, the rest is NaN.
ToNumeric(c) == IF c # NULL /\ Val(c) \in Int THEN c ELSE NULL

\* lines 178-179
CoercePrices(f) ==
  [f EXCEPT !.rows =
     [i \in 1..Len(f.rows) |->
        [c \in f.cols |-> IF c \in PriceCols THEN ToNumeric(f.rows[i][c])
                          ELSE f.rows[i][c]]]]

\* lines 116-123
Top2(df) == GroupHead(SortValues(DropNa(df)), 2)

\* get_top_2(df): the exception it raises, or the frame it returns.
GetTop2Of(df) ==
  IF ~({"event_ticker", "liquidity"} \subseteq df.cols)
  THEN [exc |-> "KeyError", frame |-> EmptyFrame]
  ELSE LET wide == Pivot(Top2(df))
       IN IF ~(CanonicalCols \subseteq wide.cols)
          THEN [exc |-> "KeyError", frame |-> EmptyFrame]
          ELSE [exc |-> "none", frame |-> CoercePrices(Loc(wide, CanonicalCols))]

\* main.py line 14: top_2 = utils.get_top_2(data)
GetTop2 ==
  /\ pc = "top2"
  /\ LET r == GetTop2Of(heap[data])
     IN IF r.exc # "none"
        THEN /\ exc' = r.exc
             /\ pc' = "raised"
             /\ UNCHANGED <<heap, top_2>>
        ELSE /\ heap' = Append(heap, r.frame)
             /\ top_2' = Len(heap) + 1
             /\ pc' = "spread"
             /\ UNCHANGED exc
  /\ UNCHANGED <<data, final_df, cursor, frames, tot, log>>

----------------------------------------------------------------------------
(* add_spread_col *)

\* 0.02 (line 206) in units of 1/10000
HighSpreadMax == 200

Abs(x) == IF x < 0 THEN -x ELSE x

RECURSIVE Gcd(_, _)
Gcd(a, b) == IF b = 0 THEN a ELSE Gcd(b, a % b)

NaN == [n |-> 0, d |-> 0]

Zero == [n |-> 0, d |-> 1]

\* Float division of two numeric cells, with NaN for a null operand.
Div(a, b) ==
  IF a = NULL \/ b = NULL THEN NaN
  ELSE IF Val(b) = 0
       THEN [n |-> IF Val(a) > 0 THEN 1 ELSE IF Val(a) < 0 THEN -1 ELSE 0,
             d |-> 0]
       ELSE LET g == Gcd(Abs(Val(a)), Abs(Val(b)))
                sign == IF Val(b) < 0 THEN -1 ELSE 1
            IN [n |-> sign * (Val(a) \div g), d |-> sign * (Val(b) \div g)]

Minus(a, b) == IF a = NULL \/ b = NULL THEN NULL ELSE Some(Val(a) - Val(b))

Plus(a, b) == IF a = NULL \/ b = NULL THEN NULL ELSE Some(Val(a) + Val(b))

MaskNotNaOnly(row) == NotNa(row["yes_ask_m1"])

\* line 196: df["yes_ask_m1"].ne(0) & df["yes_ask_m1"].notna()
Mask(row) == row["yes_ask_m1"] # Some(0) /\ NotNa(row["yes_ask_m1"])

RatingStrict(spread) ==
  IF spread # NULL /\ Val(spread) < HighSpreadMax THEN "High" ELSE "Low"

\* line 206: a comparison with NaN is False, so a null spread rates "Low".
Rating(spread) ==
  IF spread # NULL /\ Val(spread) <= HighSpreadMax THEN "High" ELSE "Low"

DerivedCols ==
  {"yes_spread_m1", "yes_spread_m1_percentage", "midprice_m1",
   "Liquidity_Rating"}

\* lines 194-206 on one row
AnnotateRow(row) ==
  LET spread == Minus(row["yes_ask_m1"], row["yes_bid_m1"])
      derived ==
        [yes_spread_m1 |-> spread,
         yes_spread_m1_percentage |->
           IF Mask(row) THEN Div(spread, row["yes_ask_m1"]) ELSE Zero,
         midprice_m1 |->
           Div(Plus(row["yes_bid_m1"], row["no_bid_m1"]), Some(2)),
         Liquidity_Rating |-> Rating(spread)]
  IN [c \in DOMAIN row \cup DerivedCols |->
        IF c \in DerivedCols THEN derived[c] ELSE row[c]]

\* The frame df after lines 194-206 have assigned its four columns.
Annotated(df) ==
  [cols |-> df.cols \cup DerivedCols,
   index |-> df.index,
   rows |-> [i \in 1..Len(df.rows) |-> AnnotateRow(df.rows[i])]]

AddSpreadColOnCopy(h, ref) ==
  [heap |-> Append(h, Annotated(h[ref])), ret |-> Len(h) + 1]

\* add_spread_col(df), lines 194-208: the assignments are made on the object
\* the caller passed, and that object is returned.
AddSpreadColOf(h, ref) ==
  [heap |-> [h EXCEPT ![ref] = Annotated(h[ref])], ret |-> ref]

\* main.py line 16: final_df = utils.add_spread_col(top_2)
AddSpreadCol ==
  /\ pc = "spread"
  /\ LET r == AddSpreadColOf(heap, top_2)
     IN /\ heap' = r.heap
        /\ final_df' = r.ret
  /\ pc' = "done"
  /\ UNCHANGED <<exc, data, top_2, cursor, frames, tot, log>>

----------------------------------------------------------------------------
(* get_top_2 followed by add_spread_col, on every table of the bounds *)

MarketRows(n) ==
  {[k \in 1..n |-> Market(tl[k][1], tl[k][2], k)] :
     tl \in [1..n -> TickerCells \X LiquidityCells]}

\* The tables get_top_2 is given: the frame without columns that the fetch
\* returns when no page has a market, and every table of at most MaxRows
\* markets (none included).
RankInputs ==
  {EmptyFrame}
  \cup {[cols |-> RawCols, index |-> RangeIndex(Len(rows)), rows |-> rows] :
          rows \in UNION {MarketRows(n) : n \in 0..MaxRows}}

InitRank ==
  /\ pc = "top2"
  /\ exc = "none"
  /\ \E df \in RankInputs : heap = <<df>>
  /\ data = 1
  /\ top_2 = 0
  /\ final_df = 0
  /\ cursor = NULL
  /\ frames = <<>>
  /\ tot = 0
  /\ log = <<>>

NextRank == GetTop2 \/ AddSpreadCol

SpecRank == InitRank /\ [][NextRank]_vars

----------------------------------------------------------------------------
(* add_spread_col on every ranked table of the bounds *)

BidCells == {NULL, Some(0), Some(4300), Some(50000)}

AskCells == {NULL, Some(0), Some(4500), Some(4501)}

NoBidCells == {NULL, Some(5500)}

\* A row as get_top_2 returns it, with one market in slot 1.
RankedRow(bid, ask, nobid) ==
  [c \in CanonicalCols |->
     CASE c = "title_m1" -> Some("Title")
       [] c = "yes_sub_title_m1" -> Some(SubTitles[1])
       [] c = "yes_bid_m1" -> bid
       [] c = "yes_ask_m1" -> ask
       [] c = "no_bid_m1" -> nobid
       [] OTHER -> NULL]

EventKeys == <<"E1", "E2", "E3", "E4">>

RankedRows ==
  {RankedRow(b, a, n) : b \in BidCells, a \in AskCells, n \in NoBidCells}

AnnotateInputs ==
  {[cols |-> CanonicalCols,
    index |-> [i \in 1..Len(rows) |-> Some(EventKeys[i])],
    rows |-> rows] : rows \in SeqsUpTo(RankedRows, MaxEventRows)}

InitAnnotate ==
  /\ pc = "spread"
  /\ exc = "none"
  /\ \E df \in AnnotateInputs : heap = <<df>>
  /\ data = 0
  /\ top_2 = 1
  /\ final_df = 0
  /\ cursor = NULL
  /\ frames = <<>>
  /\ tot = 0
  /\ log = <<>>

NextAnnotate == AddSpreadCol

SpecAnnotate == InitAnnotate /\ [][NextAnnotate]_vars

----------------------------------------------------------------------------
(* Properties of get_top_2 (SpecRank) *)

\* The table get_top_2 was given, and the table it returned.
RankInput == heap[data]

RankOutput == heap[top_2]

GetTop2Returned == pc \in {"spread", "done"}

GetTop2Ended == pc \in {"spread", "done", "raised"}

\* The positions of the qualifying markets of event t in the input.
Qualifying(t) ==
  {i \in 1..Len(RankInput.rows) :
     /\ RankInput.rows[i]["event_ticker"] = t
     /\ NotNa(RankInput.rows[i]["liquidity"])}

Liq(i) == Val(RankInput.rows[i]["liquidity"])

EventCells == TickerCells \ {NULL}

HasRow(t) == \E k \in 1..Len(RankOutput.index) : RankOutput.index[k] = t

RowOf(t) ==
  RankOutput.rows[CHOOSE k \in 1..Len(RankOutput.index) : RankOutput.index[k] = t]

SlotCols(rank) ==
  IF rank = 1
  THEN {"title", "yes_sub_title", "yes_bid", "yes_ask", "no_bid", "no_ask"}
  ELSE {"yes_sub_title", "yes_bid", "yes_ask", "no_bid", "no_ask"}

\* The cells of slot `rank` of row are those of input market i.
Fills(row, rank, i) ==
  \A c \in SlotCols(rank) : row[ColName(c, rank)] = RankInput.rows[i][c]

\* C1: for every event with at least two qualifying markets, the output row's
\* slot 1 is filled by a market whose liquidity is at least that of the market
\* filling slot 2, and no qualifying market left out of the row has a
\* liquidity strictly greater than the slot 2 market's.
C1_RankingCorrect ==
  GetTop2Returned =>
    \A t \in EventCells :
      Cardinality(Qualifying(t)) >= 2 =>
        /\ HasRow(t)
        /\ \E i, j \in Qualifying(t) :
             /\ i # j
             /\ Fills(RowOf(t), 1, i)
             /\ Fills(RowOf(t), 2, j)
             /\ Liq(i) >= Liq(j)
             /\ \A m \in Qualifying(t) \ {i, j} : Liq(m) <= Liq(j)

C1_Witness ==
  /\ pc = "spread"
  /\ \E t \in EventCells :
       /\ Cardinality(Qualifying(t)) >= 3
       /\ \E i, j, m \in Qualifying(t) :
            /\ Fills(RowOf(t), 1, i)
            /\ Fills(RowOf(t), 2, j)
            /\ Liq(i) > Liq(j)
            /\ m \notin {i, j}
            /\ m < i

\* C2: when get_top_2 returns, its output has exactly one row for every
\* non-null event ticker that has a market with non-null liquidity and no
\* other row, so an event whose markets all have null liquidity has none.
C2_Cardinality ==
  GetTop2Returned =>
    /\ Len(RankOutput.rows) =
         Cardinality({t \in EventCells : Qualifying(t) # {}})
    /\ Len(RankOutput.index) = Len(RankOutput.rows)
    /\ \A t \in EventCells :
         Cardinality({k \in 1..Len(RankOutput.index) : RankOutput.index[k] = t})
           = IF Qualifying(t) # {} THEN 1 ELSE 0

C2_Witness ==
  /\ pc = "spread"
  /\ Len(RankOutput.rows) = 1
  /\ \E t \in EventCells :
       /\ Qualifying(t) = {}
       /\ \E i \in 1..Len(RankInput.rows) : RankInput.rows[i]["event_ticker"] = t

\* C3: for every input table, an event with exactly one qualifying market
\* yields an output row whose _m1 columns carry that market's values and whose
\* _m2 columns are all null, and get_top_2 does not raise.
C3_SingleMarketEvent ==
  GetTop2Ended =>
    \A t \in EventCells :
      Cardinality(Qualifying(t)) = 1 =>
        /\ exc = "none"
        /\ pc # "raised"
        /\ HasRow(t)
        /\ \A i \in Qualifying(t) : Fills(RowOf(t), 1, i)
        /\ \A c \in SlotCols(2) : RowOf(t)[ColName(c, 2)] = NULL

\* C4: when the input table has no row, or none left after the rows with a
\* null event_ticker or a null liquidity are dropped, get_top_2 returns a
\* table of no rows with the canonical columns without raising, and
\* add_spread_col returns a table of no rows for it.
C4_EmptyInput ==
  (GetTop2Ended /\ \A t \in EventCells : Qualifying(t) = {}) =>
    /\ exc = "none"
    /\ pc # "raised"
    /\ RankOutput.rows = <<>>
    /\ CanonicalCols \subseteq RankOutput.cols
    /\ pc = "done" => heap[final_df].rows = <<>>

\* C9: among the qualifying markets of one event with equal liquidity, the
\* one earlier in the input table has the lower m_rank: the later one never
\* fills slot 1, and fills slot 2 only when the earlier one fills slot 1.
C9_StableTies ==
  GetTop2Returned =>
    \A t \in EventCells :
      \A i, j \in Qualifying(t) :
        (i < j /\ Liq(i) = Liq(j)) =>
          /\ ~Fills(RowOf(t), 1, j)
          /\ Fills(RowOf(t), 2, j) => Fills(RowOf(t), 1, i)

C9_Witness ==
  /\ pc = "spread"
  /\ \E t \in EventCells :
       \E h, i, j \in Qualifying(t) :
         /\ i < j
         /\ j < h
         /\ Liq(i) = Liq(j)
         /\ Liq(h) > Liq(i)
         /\ Fills(RowOf(t), 1, h)
         /\ Fills(RowOf(t), 2, i)

----------------------------------------------------------------------------
(* Aliasing between the stages (SpecRank) *)

SameCells(f, g) ==
  /\ g.index = f.index
  /\ Len(g.rows) = Len(f.rows)
  /\ \A i \in 1..Len(f.rows) : \A c \in f.cols : g.rows[i][c] = f.rows[i][c]

----------------------------------------------------------------------------
(* Properties of add_spread_col (SpecAnnotate) *)

AnnotatedRows == {heap[final_df].rows[i] : i \in 1..Len(heap[final_df].rows)}

\* C7: in every row of the returned table the spread is yes_ask_m1 minus
\* yes_bid_m1, unclamped (null when either is null); the percentage is the
\* spread divided by yes_ask_m1 when yes_ask_m1 is neither null nor zero (null
\* when the spread is null), and is 0.0 in every other row.
C7_SpreadPercentage ==
  pc = "done" =>
    \A r \in AnnotatedRows :
      LET ask == r["yes_ask_m1"]
          bid == r["yes_bid_m1"]
          spread == r["yes_spread_m1"]
          pct == r["yes_spread_m1_percentage"]
      IN /\ IF ask = NULL \/ bid = NULL THEN spread = NULL
            ELSE spread = Some(Val(ask) - Val(bid))
         /\ IF ask # NULL /\ Val(ask) # 0
            THEN IF spread = NULL THEN pct = NaN
                 ELSE pct.d > 0 /\ pct.n * Val(ask) = Val(spread) * pct.d
            ELSE pct = Zero

C7_Witness ==
  /\ pc = "done"
  /\ \E r \in AnnotatedRows :
       /\ r["yes_ask_m1"] = Some(0)
       /\ r["yes_bid_m1"] = Some(50000)
       /\ r["yes_spread_m1"] = Some(-50000)
       /\ r["yes_spread_m1_percentage"] = Zero
  /\ \E r \in AnnotatedRows :
       /\ r["yes_ask_m1"] = Some(4500)
       /\ r["yes_spread_m1"] = Some(200)
       /\ r["yes_spread_m1_percentage"] = [n |-> 2, d |-> 45]

\* C8: in every row of the returned table Liquidity_Rating is "High" exactly
\* when the spread is non-null and at most 0.02 (200 gives "High", 201 gives
\* "Low"), and is "Low" when the spread is null because yes_ask_m1 or
\* yes_bid_m1 is null.
C8_Rating ==
  pc = "done" =>
    \A r \in AnnotatedRows :
      /\ r["Liquidity_Rating"] \in {"High", "Low"}
      /\ r["Liquidity_Rating"] = "High" <=>
           (r["yes_spread_m1"] # NULL /\ Val(r["yes_spread_m1"]) <= 200)
      /\ (r["yes_ask_m1"] = NULL \/ r["yes_bid_m1"] = NULL) =>
           (r["yes_spread_m1"] = NULL /\ r["Liquidity_Rating"] = "Low")

C8_Witness ==
  /\ pc = "done"
  /\ \E r \in AnnotatedRows :
       r["yes_spread_m1"] = Some(200) /\ r["Liquidity_Rating"] = "High"
  /\ \E r \in AnnotatedRows :
       /\ r["yes_ask_m1"] = NULL
       /\ r["yes_spread_m1"] = NULL
       /\ r["Liquidity_Rating"] = "Low"

----------------------------------------------------------------------------
(* Properties of get_data_from_api (SpecFetch) *)

FetchEnded == pc \in {"returned", "raised"}

\* The markets of the pages of the log, in the order of the log.
RECURSIVE PagesOf(_)
PagesOf(l) ==
  IF l = <<>> THEN <<>>
  ELSE (IF Head(l).resp.kind = "ok" THEN Head(l).resp.markets ELSE <<>>)
       \o PagesOf(Tail(l))

\* C5: when no page was obtained, or every obtained page has no market,
\* get_data_from_api returns a table of no rows and does not raise.
C5_NoPages ==
  (FetchEnded /\ \A i \in 1..Len(frames) : frames[i].rows = <<>>) =>
    /\ pc = "returned"
    /\ exc = "none"
    /\ heap[data].rows = <<>>

\* C10: the first request carries no cursor and each later one the cursor of
\* the response before it; a request is made only after a page with a cursor,
\* and the loop ends only on a failure or a page without one; the returned
\* table holds the markets of the pages obtained, page after page in the
\* order fetched and within a page in the order of the payload.
C10_Pagination ==
  /\ \A i \in 1..Len(log) :
       log[i].sent = IF i = 1 THEN NULL ELSE log[i - 1].resp.cursor
  /\ \A i \in 1..(Len(log) - 1) :
       log[i].resp.kind = "ok" /\ Truthy(log[i].resp.cursor)
  /\ pc # "request" =>
       /\ log # <<>>
       /\ log[Len(log)].resp.kind # "ok" \/ ~Truthy(log[Len(log)].resp.cursor)
  /\ Len(frames) = Cardinality({i \in 1..Len(log) : log[i].resp.kind = "ok"})
  /\ pc = "returned" =>
       /\ heap[data].rows = PagesOf(log)
       /\ heap[data].index = RangeIndex(Len(PagesOf(log)))

C10_Witness ==
  /\ pc = "returned"
  /\ Len(log) = 3
  /\ log[3].resp.kind # "ok"
  /\ log[2].sent # log[3].sent
  /\ Len(log[1].resp.markets) = 2
  /\ log[1].resp.markets[1] # log[1].resp.markets[2]
  /\ log[2].resp.markets # <<>>
  /\ Len(heap[data].rows) >= 3

====
